---- MODULE Spec2Model ----
(***************************************************************************)
(* Zeolite: the mirrored handshake (Identity.NewStream) and the framed     *)
(* record layer (Stream.Send / Stream.Recv) of go-zeolite, run by two      *)
(* peers A and B over one duplex connection.                               *)
(*                                                                         *)
(* The connection is a pair of FIFO queues of segments, one per direction. *)
(* A segment is what one Write call handed to the transport (a frame is    *)
(* two segments, the 4-byte size and the body, appended by one Write).     *)
(* libsodium is modelled symbolically: a signature, a box or a             *)
(* secretstream ciphertext is a record of the keys and the counter it was  *)
(* made under, plus a flag that is cleared when a byte is altered in       *)
(* transit.                                                                *)
(***************************************************************************)
EXTENDS Integers, Sequences, FiniteSets, TLC

VARIABLES
    cb,       \* cb[p][pk]: what peer p's TrustCB returns for the key pk
    pc,       \* pc[p]: position of peer p inside NewStream
    err,      \* err[p]: error returned by NewStream ("none" while it runs)
    ret,      \* ret[p]: the Stream NewStream returns (named result `ret`)
    loc,      \* loc[p]: locals of NewStream (ephSK, otherEphPK, sendK, recvK)
    chan,     \* chan[p]: segments written by p and not yet read by its peer
    closed,   \* closed[p]: p's end of the connection is closed
    proc,     \* proc[p]: "running", "exited" or "panicked"
    rpc,      \* rpc[p]: position inside Recv ("size" or "body")
    rsiz,     \* rsiz[p]: `siz` decoded by the Recv in progress
    sent,     \* sent[p]: the Send calls of p so far, [msg, err]
    rcvd,     \* rcvd[p]: the Recv calls of p that returned, [msg, err]
    trace,    \* trace[p]: transport and callback events of p's NewStream
    faults,   \* number of segments altered in transit so far
    drv,      \* the driver's flags, its trustList and what trust answered
    bc        \* bc[p]: the BlockCopy of p: position, written, err, sink calls

vars == <<cb, pc, err, ret, loc, chan, closed, proc, rpc, rsiz,
          sent, rcvd, trace, faults, drv, bc>>

\* ---------------------------------------------------------------- bounds
MaxSends == 2
MaxRecvs == 3
MaxFaults == 1
MaxIDs == 2      \* number of -t options
MaxFiles == 1    \* number of -T options
MaxLines == 1    \* number of lines of a trust file

\* ------------------------------------------------------------- constants
Protocol == "zeolite1"
ProtocolLen == 8
SignPKBytes == 32
SignBytes == 64
EphPKBytes == 32
BoxNonceBytes == 24
BoxMacBytes == 16
SymKBytes == 32
HeaderBytes == 24
ABytes == 17
SizeBytes == 4

ErrRecv == "ErrRecv"
ErrSend == "ErrSend"
ErrEOS == "ErrEOS"
ErrProto == "ErrProto"
ErrTrust == "ErrTrust"
ErrVerify == "ErrVerify"
ErrEncrypt == "ErrEncrypt"
ErrDecrypt == "ErrDecrypt"
Nil == "nil"
\* the net.Conn error that Send hands back unwrapped
ConnWriteErr == "conn.Write error"
\* runtime panic: index out of range [0] with length 0
Panic == "panic"

Peers == {"A", "B"}
Other(p) == IF p = "A" THEN "B" ELSE "A"

\* ------------------------------------------------------------ identities
SignPKs == {"pkA", "pkB"}
SecretOf(pk) == <<"sk", pk>>
identity ==
    [p \in Peers |->
        IF p = "A" THEN [Public |-> "pkA", Secret |-> SecretOf("pkA")]
                   ELSE [Public |-> "pkB", Secret |-> SecretOf("pkB")]]

Verdicts == {"accept", "reject", "error"}

\* the values the CSPRNG hands to peer p during its one handshake
FreshEphPK(p) == <<"ephPK", p>>
FreshEphSK(p) == <<"ephSK", p>>
FreshSymK(p) == <<"symK", p>>
FreshNonce(p) == <<"nonce", p>>
FreshHeader(p) == <<"header", p>>
ZeroKey == <<"zero", "">>

\* the public key matching a box secret key
BoxPublicOf(sk) == <<"ephPK", sk[2]>>

\* ------------------------------------------------------------- libsodium
\* crypto_sign: the combined signed message, signature || message
crypto_sign(m, sk) == [sk |-> sk, m |-> m, intact |-> TRUE]
\* variant: the result of crypto_sign_open is not looked at
crypto_sign_open_ok_unchecked(sm, pk) == TRUE
crypto_sign_open_ok(sm, pk) == sm.intact /\ sm.sk = SecretOf(pk)

\* crypto_box_easy / crypto_box_open_easy: the box is keyed by the shared
\* secret of the two key pairs, which is the same from either side
BoxShared(pk, sk) == {pk, BoxPublicOf(sk)}
crypto_box_easy(m, n, pk, sk) ==
    [shared |-> BoxShared(pk, sk), n |-> n, m |-> m, intact |-> TRUE]
crypto_box_open_easy_ok(c, n, pk, sk) ==
    c.intact /\ c.n = n /\ c.shared = BoxShared(pk, sk)

\* crypto_secretstream_xchacha20poly1305_state: key, header and the
\* message counter, which starts at 1
ZeroState == [k |-> ZeroKey, hdr |-> ZeroKey, ctr |-> 0]
init_push(k, hdr) == [k |-> k, hdr |-> hdr, ctr |-> 1]
\* variant: header and key handed over in each other's place
init_pull_swapped(hdr, k) == [k |-> hdr, hdr |-> k, ctr |-> 1]
init_pull(hdr, k) == [k |-> k, hdr |-> hdr, ctr |-> 1]
\* push: the ciphertext of m under the state, and the state it leaves
push_c(st, m) ==
    [k |-> st.k, hdr |-> st.hdr, ctr |-> st.ctr, m |-> m, intact |-> TRUE]
push_state(st) == [st EXCEPT !.ctr = @ + 1]
\* pull: authenticates the ciphertext against the state
pull_ok(st, c) ==
    c.intact /\ c.k = st.k /\ c.hdr = st.hdr /\ c.ctr = st.ctr
pull_state(st) == [st EXCEPT !.ctr = @ + 1]


\* ------------------------------------------------------------- transport
Seg(kind, n, val) == [kind |-> kind, len |-> n, val |-> val]

\* conn.Write succeeds while both ends of the connection are open
ConnWriteOK(p) == ~closed[p] /\ ~closed[Other(p)]
\* the number of bytes in a queue of segments
RECURSIVE SegBytes(_)
SegBytes(q) == IF q = <<>> THEN 0 ELSE Head(q).len + SegBytes(Tail(q))

\* what is left of the queue q after n of its bytes were read; a segment
\* read in part leaves its remaining bytes, which hold nothing whole
RECURSIVE DropBytes(_, _)
DropBytes(q, n) ==
    IF n = 0 \/ q = <<>> THEN q
    ELSE IF Head(q).len <= n THEN DropBytes(Tail(q), n - Head(q).len)
    ELSE <<Seg("rest", Head(q).len - n, "?")>> \o Tail(q)

\* io.ReadFull / io.CopyN of n bytes: the bytes are there
ReadReady(p, n) ==
    chan[Other(p)] # <<>> /\ Head(chan[Other(p)]).len = n
\* io.ReadFull / io.CopyN of n bytes: the peer closed before n bytes came
ReadFails(p, n) ==
    /\ closed[Other(p)]
    /\ IF chan[Other(p)] = <<>> THEN TRUE ELSE Head(chan[Other(p)]).len < n
Incoming(p) == Head(chan[Other(p)]).val

\* an event of trace: a write ("w") or read ("r") of n bytes, or the call
\* of the trust callback ("cb"); v keeps the protocol tag that was read
Ev(op, n, v) == [op |-> op, n |-> n, v |-> v]

\* ------------------------------------------------- the driver's trust list
\* base64.StdEncoding: the alphabet, and "=" as padding
Base64Std ==
    <<"A", "B", "C", "D", "E", "F", "G", "H", "I", "J", "K", "L", "M",
      "N", "O", "P", "Q", "R", "S", "T", "U", "V", "W", "X", "Y", "Z",
      "a", "b", "c", "d", "e", "f", "g", "h", "i", "j", "k", "l", "m",
      "n", "o", "p", "q", "r", "s", "t", "u", "v", "w", "x", "y", "z",
      "0", "1", "2", "3", "4", "5", "6", "7", "8", "9", "+", "/">>
Base64Pad == "="

\* Base64Enc: three bytes become four characters of six bits each; a last
\* group of one or two bytes is padded to four characters
RECURSIVE Base64Enc(_)
Base64Enc(data) ==
    IF data = <<>> THEN <<>>
    ELSE IF Len(data) = 1 THEN
        <<Base64Std[(data[1] \div 4) + 1],
          Base64Std[((data[1] % 4) * 16) + 1],
          Base64Pad, Base64Pad>>
    ELSE IF Len(data) = 2 THEN
        <<Base64Std[(data[1] \div 4) + 1],
          Base64Std[((data[1] % 4) * 16) + (data[2] \div 16) + 1],
          Base64Std[((data[2] % 16) * 4) + 1],
          Base64Pad>>
    ELSE
        <<Base64Std[(data[1] \div 4) + 1],
          Base64Std[((data[1] % 4) * 16) + (data[2] \div 16) + 1],
          Base64Std[((data[2] % 16) * 4) + (data[3] \div 64) + 1],
          Base64Std[(data[3] % 64) + 1]>>
        \o Base64Enc(SubSeq(data, 4, Len(data)))

\* the public keys the driver meets: SignPKBytes bytes, here all alike
KeyOf(b) == [i \in 1..SignPKBytes |-> b]
DriverKeys == {KeyOf(0), KeyOf(1), KeyOf(255)}
\* what a -t option or a line of a -T file can hold: the id of a key, or
\* text that is the id of no key
TrustIDs == {Base64Enc(KeyOf(0)), Base64Enc(KeyOf(1)), <<"x">>}

SeqsUpTo(S, n) == UNION {[1..k -> S] : k \in 0..n}
RECURSIVE Flatten(_)
Flatten(ss) == IF ss = <<>> THEN <<>> ELSE Head(ss) \o Flatten(Tail(ss))

\* BlockCopy as it is entered: written is 0 and the first BlockRead is next
BlockCopyStart ==
    [at |-> "BlockRead", block |-> <<>>, written |-> 0, err |-> "none",
     sink |-> <<>>]

DrvIdle ==
    [phase |-> "idle", noCheck |-> FALSE, trustIDs |-> <<>>,
     trustFiles |-> <<>>, trustList |-> <<>>, otherPK |-> <<>>,
     accept |-> FALSE]

\* ------------------------------------------------------------------ Init
ZeroPK == ""
ZeroStream ==
    [Conn |-> "nil", OtherPK |-> ZeroPK,
     SendState |-> ZeroState, RecvState |-> ZeroState]
ZeroLocals ==
    [ephSK |-> ZeroKey, otherEphPK |-> ZeroKey,
     sendK |-> ZeroKey, recvK |-> ZeroKey]

Init ==
    /\ cb \in [Peers -> [SignPKs -> Verdicts]]
    /\ pc = [p \in Peers |-> "WriteProto"]
    /\ err = [p \in Peers |-> "none"]
    /\ ret = [p \in Peers |-> ZeroStream]
    /\ loc = [p \in Peers |-> ZeroLocals]
    /\ chan = [p \in Peers |-> <<>>]
    /\ closed = [p \in Peers |-> FALSE]
    /\ proc = [p \in Peers |-> "running"]
    /\ rpc = [p \in Peers |-> "size"]
    /\ rsiz = [p \in Peers |-> <<0, 0, 0, 0>>]
    /\ sent = [p \in Peers |-> <<>>]
    /\ rcvd = [p \in Peers |-> <<>>]
    /\ trace = [p \in Peers |-> <<>>]
    /\ faults = 0
    /\ bc = [p \in Peers |-> BlockCopyStart]
    /\ drv = DrvIdle

\* ------------------------------------------------------------- NewStream
InNewStream(p, at) == proc[p] = "running" /\ pc[p] = at

\* `return ret, e`
Return(p, e) ==
    /\ pc' = [pc EXCEPT ![p] = "Returned"]
    /\ err' = [err EXCEPT ![p] = e]

\* variant: the write stays in a buffer that is never flushed
HsWrite_unflushed(p, seg, next) ==
    /\ pc' = [pc EXCEPT ![p] = next]
    /\ UNCHANGED <<chan, trace, err>>
\* a handshake write of one artifact, then on to `next`
HsWrite(p, seg, next) ==
    IF ConnWriteOK(p)
    THEN /\ chan' = [chan EXCEPT ![p] = Append(@, seg)]
         /\ trace' = [trace EXCEPT ![p] = Append(@, Ev("w", seg.len, ""))]
         /\ pc' = [pc EXCEPT ![p] = next]
         /\ err' = err
    ELSE /\ Return(p, ErrSend)
         /\ UNCHANGED <<chan, trace>>

\* a handshake read that took n bytes off the connection
HsTake(p, n, evs) ==
    /\ chan' = [chan EXCEPT ![Other(p)] = Tail(@)]
    /\ trace' = [trace EXCEPT ![p] = @ \o evs]

\* variant: only the length of the tag is compared
ProtoOK_anyTag(s) == TRUE
ProtoOK(s) == s = Protocol

WriteProto(p) ==
    /\ InNewStream(p, "WriteProto")
    /\ ret' = [ret EXCEPT ![p].Conn = "conn"]
    /\ HsWrite(p, Seg("proto", ProtocolLen, Protocol), "ReadProto")
    /\ UNCHANGED <<bc, drv, cb, loc, closed, proc, rpc, rsiz, sent, rcvd, faults>>

ReadProto(p) ==
    /\ InNewStream(p, "ReadProto")
    /\ \/ /\ ReadFails(p, ProtocolLen)
          /\ Return(p, ErrRecv)
          /\ UNCHANGED <<chan, trace>>
       \/ /\ ReadReady(p, ProtocolLen)
          /\ HsTake(p, ProtocolLen, <<Ev("r", ProtocolLen, Incoming(p))>>)
          /\ IF ProtoOK(Incoming(p))
             THEN pc' = [pc EXCEPT ![p] = "WritePK"] /\ err' = err
             ELSE Return(p, ErrProto)
    /\ UNCHANGED <<bc, drv, cb, ret, loc, closed, proc, rpc, rsiz, sent, rcvd, faults>>

WritePK(p) ==
    /\ InNewStream(p, "WritePK")
    /\ HsWrite(p, Seg("pk", SignPKBytes, identity[p].Public), "ReadPK")
    /\ UNCHANGED <<bc, drv, cb, ret, loc, closed, proc, rpc, rsiz, sent, rcvd, faults>>

\* variant: the result of the callback is not looked at
Trusted_unchecked(p, otherPK) == TRUE
\* variant: only the bool of the callback is looked at, not its error
Trusted_errIgnored(p, otherPK) == cb[p][otherPK] # "reject"
\* `trust, err := cb(ret.OtherPK); err != nil || !trust`
Trusted(p, otherPK) == cb[p][otherPK] = "accept"

ReadPK(p) ==
    /\ InNewStream(p, "ReadPK")
    /\ \/ /\ ReadFails(p, SignPKBytes)
          /\ Return(p, ErrRecv)
          /\ UNCHANGED <<chan, trace, ret>>
       \/ /\ ReadReady(p, SignPKBytes)
          /\ HsTake(p, SignPKBytes, <<Ev("r", SignPKBytes, ""), Ev("cb", 0, "")>>)
          /\ ret' = [ret EXCEPT ![p].OtherPK = Incoming(p)]
          /\ IF Trusted(p, Incoming(p))
             THEN pc' = [pc EXCEPT ![p] = "WriteEph"] /\ err' = err
             ELSE Return(p, ErrTrust)
    /\ UNCHANGED <<bc, drv, cb, loc, closed, proc, rpc, rsiz, sent, rcvd, faults>>

WriteEph(p) ==
    /\ InNewStream(p, "WriteEph")
    /\ loc' = [loc EXCEPT ![p].ephSK = FreshEphSK(p)]
    /\ HsWrite(p, Seg("eph", SignBytes + EphPKBytes,
                      crypto_sign(FreshEphPK(p), identity[p].Secret)),
               "ReadEph")
    /\ UNCHANGED <<bc, drv, cb, ret, closed, proc, rpc, rsiz, sent, rcvd, faults>>

ReadEph(p) ==
    /\ InNewStream(p, "ReadEph")
    /\ \/ /\ ReadFails(p, SignBytes + EphPKBytes)
          /\ Return(p, ErrRecv)
          /\ UNCHANGED <<chan, trace, loc>>
       \/ /\ ReadReady(p, SignBytes + EphPKBytes)
          /\ HsTake(p, SignBytes + EphPKBytes,
                 <<Ev("r", SignBytes + EphPKBytes,
                      IF Incoming(p).intact THEN "" ELSE "altered")>>)
          /\ IF crypto_sign_open_ok(Incoming(p), ret[p].OtherPK)
             THEN /\ loc' = [loc EXCEPT ![p].otherEphPK = Incoming(p).m]
                  /\ pc' = [pc EXCEPT ![p] = "WriteSym"]
                  /\ err' = err
             ELSE /\ Return(p, ErrVerify)
                  /\ loc' = loc
    /\ UNCHANGED <<bc, drv, cb, ret, closed, proc, rpc, rsiz, sent, rcvd, faults>>

\* variant: symMsg without room for the MAC
SymMsgBytes_noMac == BoxNonceBytes + SymKBytes
SymMsgBytes == BoxNonceBytes + BoxMacBytes + SymKBytes

WriteSym(p) ==
    /\ InNewStream(p, "WriteSym")
    /\ loc' = [loc EXCEPT ![p].sendK = FreshSymK(p)]
    /\ HsWrite(p, Seg("sym", SymMsgBytes,
                      [nonce |-> FreshNonce(p),
                       cipher |-> crypto_box_easy(FreshSymK(p), FreshNonce(p),
                                      loc[p].otherEphPK, loc[p].ephSK)]),
               "ReadSym")
    /\ UNCHANGED <<bc, drv, cb, ret, closed, proc, rpc, rsiz, sent, rcvd, faults>>

ReadSym(p) ==
    /\ InNewStream(p, "ReadSym")
    /\ \/ /\ ReadFails(p, SymMsgBytes)
          /\ Return(p, ErrRecv)
          /\ UNCHANGED <<chan, trace, loc>>
       \/ /\ ReadReady(p, SymMsgBytes)
          /\ HsTake(p, SymMsgBytes, <<Ev("r", SymMsgBytes, "")>>)
          /\ IF crypto_box_open_easy_ok(Incoming(p).cipher, Incoming(p).nonce,
                                        loc[p].otherEphPK, loc[p].ephSK)
             THEN /\ loc' = [loc EXCEPT ![p].recvK = Incoming(p).cipher.m]
                  /\ pc' = [pc EXCEPT ![p] = "WriteHdr"]
                  /\ err' = err
             ELSE /\ Return(p, ErrDecrypt)
                  /\ loc' = loc
    /\ UNCHANGED <<bc, drv, cb, ret, closed, proc, rpc, rsiz, sent, rcvd, faults>>

WriteHdr(p) ==
    /\ InNewStream(p, "WriteHdr")
    /\ ret' = [ret EXCEPT
                 ![p].SendState = init_push(loc[p].sendK, FreshHeader(p))]
    /\ HsWrite(p, Seg("hdr", HeaderBytes, FreshHeader(p)), "ReadHdr")
    /\ UNCHANGED <<bc, drv, cb, loc, closed, proc, rpc, rsiz, sent, rcvd, faults>>

\* variant: the error of the last ReadFull is not looked at
ReadHdr_errIgnored(p) ==
    /\ InNewStream(p, "ReadHdr")
    /\ \/ /\ ReadFails(p, HeaderBytes)
          /\ ret' = [ret EXCEPT
                       ![p].RecvState = init_pull(ZeroKey, loc[p].recvK)]
          /\ Return(p, Nil)
          /\ UNCHANGED <<chan, trace>>
       \/ /\ ReadReady(p, HeaderBytes)
          /\ HsTake(p, HeaderBytes, <<Ev("r", HeaderBytes, "")>>)
          /\ ret' = [ret EXCEPT
                       ![p].RecvState = init_pull(Incoming(p), loc[p].recvK)]
          /\ Return(p, Nil)
    /\ UNCHANGED <<bc, drv, cb, loc, closed, proc, rpc, rsiz, sent, rcvd, faults>>
ReadHdr(p) ==
    /\ InNewStream(p, "ReadHdr")
    /\ \/ /\ ReadFails(p, HeaderBytes)
          /\ Return(p, ErrRecv)
          /\ UNCHANGED <<chan, trace, ret>>
       \/ /\ ReadReady(p, HeaderBytes)
          /\ HsTake(p, HeaderBytes, <<Ev("r", HeaderBytes, "")>>)
          /\ ret' = [ret EXCEPT
                       ![p].RecvState = init_pull(Incoming(p), loc[p].recvK)]
          /\ Return(p, Nil)
    /\ UNCHANGED <<bc, drv, cb, loc, closed, proc, rpc, rsiz, sent, rcvd, faults>>

NewStream(p) ==
    \/ WriteProto(p) \/ ReadProto(p)
    \/ WritePK(p) \/ ReadPK(p)
    \/ WriteEph(p) \/ ReadEph(p)
    \/ WriteSym(p) \/ ReadSym(p)
    \/ WriteHdr(p) \/ ReadHdr(p)


\* ------------------------------------------------------- Stream.Send/Recv
Plaintexts == {<<>>, <<7>>, <<8, 9>>}

Established(p) == proc[p] = "running" /\ pc[p] = "Returned" /\ err[p] = Nil

\* ptr: &val[0], which panics on an empty slice
ptr_ok(val) == Len(val) > 0

\* A uint32 is kept as its four base-256 digits, least significant first,
\* which is also its little-endian encoding.
\* variant: the most significant byte first
PutUint32_bigEndian(n) ==
    <<(n \div 16777216) % 256, (n \div 65536) % 256, (n \div 256) % 256,
      n % 256>>
\* binary.LittleEndian.PutUint32(buf, uint32(n)), for a length n < 2^31
PutUint32(n) ==
    <<n % 256, (n \div 256) % 256, (n \div 65536) % 256,
      (n \div 16777216) % 256>>
\* binary.LittleEndian.Uint32(buf)
Uint32(b) == <<b[1], b[2], b[3], b[4]>>
\* u + k in uint32: the carry out of the top digit is lost
U32Add(u, k) ==
    LET s1 == u[1] + k
        s2 == u[2] + s1 \div 256
        s3 == u[3] + s2 \div 256
        s4 == u[4] + s3 \div 256
    IN  <<s1 % 256, s2 % 256, s3 % 256, s4 % 256>>
\* the number a uint32 stands for
U32Int(u) == u[1] + 256 * u[2] + 65536 * u[3] + 16777216 * u[4]

\* buf of Send: the size, then the output of push, handed to one Write
Frame(st, msg) ==
    <<Seg("size", SizeBytes, PutUint32(Len(msg))),
      Seg("body", Len(msg) + ABytes, push_c(st, msg))>>

\* `func (stream Stream) Send`, `func (stream Stream) Recv`: the receiver is
\* a copy of the caller's Stream, so the state that push or pull advanced
\* is dropped when the method returns
\* variant: Send with a pointer receiver while Recv keeps its copy
StreamAfterSend_pointer(s) == [s EXCEPT !.SendState = push_state(@)]
StreamAfterSend(s) == s
\* variant: Recv advances the sending state as well
StreamAfterRecv_clobber(s) == [s EXCEPT !.SendState = pull_state(@)]
StreamAfterRecv(s) == s

Send(p, msg) ==
    /\ Established(p)
    /\ Len(sent[p]) < MaxSends
    /\ IF ~ptr_ok(msg)
       THEN /\ proc' = [proc EXCEPT ![p] = "panicked"]
            /\ closed' = [closed EXCEPT ![p] = TRUE]
            /\ sent' = [sent EXCEPT ![p] = Append(@, [msg |-> msg, err |-> Panic])]
            /\ UNCHANGED <<chan, ret>>
       ELSE /\ ret' = [ret EXCEPT ![p] = StreamAfterSend(@)]
            /\ UNCHANGED <<proc, closed>>
            /\ IF ConnWriteOK(p)
               THEN /\ chan' = [chan EXCEPT
                                  ![p] = @ \o Frame(ret[p].SendState, msg)]
                    /\ sent' = [sent EXCEPT
                                  ![p] = Append(@, [msg |-> msg, err |-> Nil])]
               ELSE /\ chan' = chan
                    /\ sent' = [sent EXCEPT
                                  ![p] = Append(@, [msg |-> msg,
                                                    err |-> ConnWriteErr])]
    /\ UNCHANGED <<bc, drv, cb, pc, err, loc, rpc, rsiz, rcvd, trace, faults>>

\* `return ret, e` of Recv; n is the number of bytes the call took off the
\* connection
RecvReturn(p, msg, e, n) ==
    /\ rcvd' = [rcvd EXCEPT
                  ![p] = Append(@, [msg |-> msg, err |-> e, n |-> n])]
    /\ rpc' = [rpc EXCEPT ![p] = "size"]

\* the error of a failed read of the size
RecvSizeErr == ErrRecv

\* the bytes a failed ReadFull still took: what the peer wrote of them
\* before it closed
ShortRead(p) == SegBytes(chan[Other(p)])

\* make([]byte, n): n zero bytes
Zeros(n) == [i \in 1..n |-> 0]

\* a uint32 below 256; every segment of the model is shorter than that
Fits(u) == u[2] = 0 /\ u[3] = 0 /\ u[4] = 0
\* make([]byte, siz): siz zero bytes, written out when siz is below 256 and
\* otherwise named by the digits of siz
MakeBytes(siz) ==
    IF Fits(siz) THEN Zeros(siz[1])
    ELSE <<"zeros", siz[1], siz[2], siz[3], siz[4]>>

\* length prefixes other than those Send writes: 0, 2, 2^31, and the last
\* values of the uint32 range, 2^32 - 17, 2^32 - 16 and 2^32 - 1
OddSizes ==
    {<<0, 0, 0, 0>>, <<2, 0, 0, 0>>, <<0, 0, 0, 128>>,
     <<239, 255, 255, 255>>, <<240, 255, 255, 255>>, <<255, 255, 255, 255>>}

\* io.ReadFull of n bytes: it returns once n bytes have come, from however
\* many writes, and fails when the peer closed before that
FullReady(p, n) == SegBytes(chan[Other(p)]) >= n
FullFails(p, n) == closed[Other(p)] /\ SegBytes(chan[Other(p)]) < n

\* what binary.LittleEndian.Uint32 can make of the four bytes read: the
\* size a Send wrote when the read starts at a frame, any value when it
\* starts inside one
SizeRead(p) ==
    IF Head(chan[Other(p)]).kind = "size"
    THEN {Uint32(Incoming(p))}
    ELSE OddSizes

\* Recv up to the second ReadFull: the size is read and the two buffers are
\* made; make of a buffer of 256 bytes or more succeeds, or, for want of
\* memory, ends the program
RecvSize(p) ==
    /\ Established(p)
    /\ rpc[p] = "size"
    /\ Len(rcvd[p]) < MaxRecvs
    /\ \/ /\ FullFails(p, SizeBytes)
          /\ RecvReturn(p, <<>>, RecvSizeErr, ShortRead(p))
          /\ UNCHANGED <<chan, rsiz, proc, closed>>
       \/ /\ FullReady(p, SizeBytes)
          /\ chan' = [chan EXCEPT ![Other(p)] = DropBytes(@, SizeBytes)]
          /\ \E siz \in SizeRead(p) :
                /\ rsiz' = [rsiz EXCEPT ![p] = siz]
                /\ \/ /\ rpc' = [rpc EXCEPT ![p] = "body"]
                      /\ rcvd' = rcvd
                      /\ UNCHANGED <<proc, closed>>
                   \/ /\ ~Fits(siz)
                      /\ proc' = [proc EXCEPT ![p] = "panicked"]
                      /\ closed' = [closed EXCEPT ![p] = TRUE]
                      /\ RecvReturn(p, <<>>, Panic, SizeBytes)
    /\ UNCHANGED <<drv, cb, pc, err, ret, loc, sent, trace, faults>>

\* len(buf) of the second read: `siz + ABYTES`, computed in uint32
BodyBytes(siz) == U32Int(U32Add(siz, ABytes))

\* the second ReadFull has its bytes
BodyReady(p) ==
    IF Fits(U32Add(rsiz[p], ABytes))
    THEN FullReady(p, BodyBytes(rsiz[p]))
    ELSE FALSE
\* buf holds the whole body of one frame, and nothing else
BodyWhole(p) ==
    IF chan[Other(p)] = <<>> THEN FALSE
    ELSE /\ Head(chan[Other(p)]).kind = "body"
         /\ Head(chan[Other(p)]).len = BodyBytes(rsiz[p])

\* Recv from the second ReadFull on
RecvBody(p) ==
    /\ Established(p)
    /\ rpc[p] = "body"
    /\ \/ /\ closed[Other(p)] /\ ~BodyReady(p)
          /\ RecvReturn(p, MakeBytes(rsiz[p]), ErrRecv,
                       SizeBytes + ShortRead(p))
          /\ UNCHANGED <<chan, ret, proc, closed>>
       \/ /\ BodyReady(p)
          /\ chan' = [chan EXCEPT
                        ![Other(p)] = DropBytes(@, BodyBytes(rsiz[p]))]
          /\ IF ~ptr_ok(MakeBytes(rsiz[p])) \/ BodyBytes(rsiz[p]) = 0
             THEN /\ proc' = [proc EXCEPT ![p] = "panicked"]
                  /\ closed' = [closed EXCEPT ![p] = TRUE]
                  /\ RecvReturn(p, <<>>, Panic, SizeBytes + BodyBytes(rsiz[p]))
                  /\ ret' = ret
             ELSE /\ ret' = [ret EXCEPT ![p] = StreamAfterRecv(@)]
                  /\ UNCHANGED <<proc, closed>>
                  /\ IF BodyWhole(p)
                     THEN IF pull_ok(ret[p].RecvState, Incoming(p))
                          THEN RecvReturn(p, Incoming(p).m, Nil,
                                          SizeBytes + BodyBytes(rsiz[p]))
                          ELSE RecvReturn(p, MakeBytes(rsiz[p]), ErrDecrypt,
                                          SizeBytes + BodyBytes(rsiz[p]))
                     ELSE RecvReturn(p, MakeBytes(rsiz[p]), ErrDecrypt,
                                     SizeBytes + BodyBytes(rsiz[p]))
    /\ UNCHANGED <<drv, cb, pc, err, loc, rsiz, sent, trace, faults>>

\* ------------------------------------------------------------- BlockCopy
\* the error of a dst.Write that failed
SinkWriteErr == "dst.Write error"

\* what dst.Write(block) returns: every byte and nil, or fewer bytes and an
\* error
SinkResults(block) ==
    {[n |-> Len(block), err |-> Nil]}
        \cup {[n |-> k, err |-> SinkWriteErr] : k \in 0..(Len(block) - 1)}

\* `block, err := src.BlockRead()`: while Recv has not returned BlockCopy
\* waits; with an error it returns written and the error; else it goes on to
\* dst.Write.  A Recv that panics takes BlockCopy with it.
AfterBlockRead(p, b) ==
    IF rcvd'[p] = rcvd[p] THEN b
    ELSE LET r == rcvd'[p][Len(rcvd'[p])]
         IN  IF r.err = Nil THEN [b EXCEPT !.at = "Write", !.block = r.msg]
             ELSE IF r.err = Panic THEN [b EXCEPT !.at = "Panicked"]
             ELSE [b EXCEPT !.at = "Returned", !.err = r.err]

\* Stream.BlockRead: a step of stream.Recv() made for BlockCopy
BlockRead(p) ==
    /\ bc[p].at = "BlockRead"
    /\ RecvSize(p) \/ RecvBody(p)
    /\ bc' = [bc EXCEPT ![p] = AfterBlockRead(p, @)]

\* variant: written counts the bytes of the write that failed as well
BlockCopyWrite_countsFailed(p) ==
    /\ proc[p] = "running"
    /\ bc[p].at = "Write"
    /\ \E r \in SinkResults(bc[p].block) :
          LET call == [block |-> bc[p].block, n |-> r.n, err |-> r.err]
          IN  bc' = [bc EXCEPT ![p] =
                IF r.err # Nil
                THEN [@ EXCEPT !.at = "Returned", !.err = r.err,
                               !.written = @ + r.n,
                               !.sink = Append(@, call)]
                ELSE [@ EXCEPT !.at = "BlockRead", !.written = @ + r.n,
                               !.sink = Append(@, call)]]
    /\ UNCHANGED <<drv, cb, pc, err, ret, loc, chan, closed, proc, rpc, rsiz,
                   sent, rcvd, trace, faults>>
\* `n, err := dst.Write(block)`, then return written, err or
\* written += int64(n) and the next turn of the loop
BlockCopyWrite(p) ==
    /\ proc[p] = "running"
    /\ bc[p].at = "Write"
    /\ \E r \in SinkResults(bc[p].block) :
          LET call == [block |-> bc[p].block, n |-> r.n, err |-> r.err]
          IN  bc' = [bc EXCEPT ![p] =
                IF r.err # Nil
                THEN [@ EXCEPT !.at = "Returned", !.err = r.err,
                               !.sink = Append(@, call)]
                ELSE [@ EXCEPT !.at = "BlockRead", !.written = @ + r.n,
                               !.sink = Append(@, call)]]
    /\ UNCHANGED <<drv, cb, pc, err, ret, loc, chan, closed, proc, rpc, rsiz,
                   sent, rcvd, trace, faults>>

\* ---------------------------------------------------------------- driver
\* simple panics when NewStream fails; bidi returns, and main with it, when
\* BlockCopy returns.  Either way the process ends and the
\* connection is closed.
LastRecvFailed(p) ==
    rcvd[p] # <<>> /\ rcvd[p][Len(rcvd[p])].err # Nil

\* variant: the process ends but its end of the connection stays open
Exit_connLeft(p) ==
    /\ proc[p] = "running"
    /\ pc[p] = "Returned"
    /\ err[p] # Nil \/ LastRecvFailed(p) \/ bc[p].at = "Returned"
    /\ proc' = [proc EXCEPT ![p] = "exited"]
    /\ UNCHANGED <<bc, drv, cb, pc, err, ret, loc, chan, closed, rpc, rsiz, sent, rcvd,
                   trace, faults>>
Exit(p) ==
    /\ proc[p] = "running"
    /\ pc[p] = "Returned"
    /\ err[p] # Nil \/ LastRecvFailed(p) \/ bc[p].at = "Returned"
    /\ proc' = [proc EXCEPT ![p] = "exited"]
    /\ closed' = [closed EXCEPT ![p] = TRUE]
    /\ UNCHANGED <<bc, drv, cb, pc, err, ret, loc, chan, rpc, rsiz, sent, rcvd,
                   trace, faults>>

\* ------------------------------------------------------------- specification
Next ==
    \E p \in Peers :
        \/ NewStream(p)
        \/ \E msg \in Plaintexts : Send(p, msg)
        \/ RecvSize(p) /\ UNCHANGED bc
        \/ RecvBody(p) /\ UNCHANGED bc
        \/ Exit(p)

Spec == Init /\ [][Next]_vars

\* both processes are scheduled: a peer that can take a step of its
\* handshake eventually takes one
SpecLive == Spec /\ \A p \in Peers : WF_vars(NewStream(p))

\* bidi: every Recv is made by BlockCopy, which hands each block to the sink
NextBlockCopy ==
    \E p \in Peers :
        \/ NewStream(p)
        \/ \E msg \in Plaintexts : Send(p, msg)
        \/ BlockRead(p)
        \/ BlockCopyWrite(p)
        \/ Exit(p)

SpecBlockCopy == Init /\ [][NextBlockCopy]_vars

\* the two handshakes alone, each driver scheduled: a NewStream that can take
\* a step takes it, and a driver whose NewStream failed ends its process
NextHandshake == \E p \in Peers : NewStream(p) \/ Exit(p)

SpecHandshakeLive ==
    /\ Init /\ [][NextHandshake]_vars
    /\ \A p \in Peers : WF_vars(NewStream(p)) /\ WF_vars(Exit(p))

\* ------------------------------------------------ the driver's trust check
\* the driver alone, started with any of the flags -k, -t and -T
InitTrust ==
    /\ \E k \in BOOLEAN, ids \in SeqsUpTo(TrustIDs, MaxIDs),
          files \in SeqsUpTo(SeqsUpTo(TrustIDs, MaxLines), MaxFiles) :
          drv = [DrvIdle EXCEPT !.phase = "args", !.noCheck = k,
                                !.trustIDs = ids, !.trustFiles = files]
    /\ cb = [p \in Peers |-> [pk \in SignPKs |-> "accept"]]
    /\ pc = [p \in Peers |-> "WriteProto"]
    /\ err = [p \in Peers |-> "none"]
    /\ ret = [p \in Peers |-> ZeroStream]
    /\ loc = [p \in Peers |-> ZeroLocals]
    /\ chan = [p \in Peers |-> <<>>]
    /\ closed = [p \in Peers |-> FALSE]
    /\ proc = [p \in Peers |-> "running"]
    /\ rpc = [p \in Peers |-> "size"]
    /\ rsiz = [p \in Peers |-> <<0, 0, 0, 0>>]
    /\ sent = [p \in Peers |-> <<>>]
    /\ rcvd = [p \in Peers |-> <<>>]
    /\ trace = [p \in Peers |-> <<>>]
    /\ faults = 0
    /\ bc = [p \in Peers |-> BlockCopyStart]

\* main: trustList is the -t ids followed by the lines of the -T files;
\* without -k an empty trustList ends the program
BuildTrustList ==
    /\ drv.phase = "args"
    /\ LET list == drv.trustIDs \o Flatten(drv.trustFiles)
       IN  drv' = [drv EXCEPT
                     !.trustList = list,
                     !.phase = IF ~drv.noCheck /\ Len(list) = 0
                               THEN "panic" ELSE "ready"]
    /\ UNCHANGED <<bc, cb, pc, err, ret, loc, chan, closed, proc, rpc, rsiz,
                   sent, rcvd, trace, faults>>

\* trust: true for a key whose base64 form is in trustList, and otherwise
\* true exactly if trustList is empty
trust(otherPK) ==
    \/ \E i \in 1..Len(drv.trustList) :
          drv.trustList[i] = Base64Enc(otherPK)
    \/ Len(drv.trustList) = 0

\* NewStream calls trust with the key the peer sent
CallTrust ==
    /\ drv.phase = "ready"
    /\ \E otherPK \in DriverKeys :
          drv' = [drv EXCEPT !.otherPK = otherPK,
                             !.accept = trust(otherPK),
                             !.phase = "decided"]
    /\ UNCHANGED <<bc, cb, pc, err, ret, loc, chan, closed, proc, rpc, rsiz,
                   sent, rcvd, trace, faults>>

NextTrust == BuildTrustList \/ CallTrust

SpecTrust == InitTrust /\ [][NextTrust]_vars

\* --------------------------------------------------- a tampering transport
\* one byte of a segment in flight is altered
Corrupt(seg) ==
    CASE seg.kind = "proto" -> [seg EXCEPT !.val = "xeolite1"]
      [] seg.kind = "pk" ->
            [seg EXCEPT !.val = IF @ = "pkA" THEN "pkB" ELSE "pkA"]
      [] seg.kind = "eph" -> [seg EXCEPT !.val.intact = FALSE]
      [] seg.kind = "sym" -> [seg EXCEPT !.val.cipher.intact = FALSE]
      [] seg.kind = "hdr" -> [seg EXCEPT !.val = <<"header", "?">>]
      [] seg.kind = "body" -> [seg EXCEPT !.val.intact = FALSE]

Tamper(p) ==
    /\ faults < MaxFaults
    /\ \E i \in 1..Len(chan[p]) :
          /\ chan[p][i].kind # "size"
          /\ chan' = [chan EXCEPT ![p][i] = Corrupt(@)]
    /\ faults' = faults + 1
    /\ UNCHANGED <<bc, drv, cb, pc, err, ret, loc, closed, proc, rpc, rsiz, sent,
                   rcvd, trace>>

NextFault == Next \/ \E p \in Peers : Tamper(p)

SpecFault == Init /\ [][NextFault]_vars

\* the length prefix of a frame in flight is altered; it is not covered by
\* the authentication of the body
TamperSize(p) ==
    /\ faults < MaxFaults
    /\ \E i \in 1..Len(chan[p]), siz \in OddSizes :
          /\ chan[p][i].kind = "size"
          /\ chan[p][i].val # siz
          /\ chan' = [chan EXCEPT ![p][i].val = siz]
    /\ faults' = faults + 1
    /\ UNCHANGED <<bc, drv, cb, pc, err, ret, loc, closed, proc, rpc, rsiz, sent,
                   rcvd, trace>>

NextSizeFault == Next \/ \E p \in Peers : TamperSize(p)

SpecSizeFault == Init /\ [][NextSizeFault]_vars

\* the two handshakes alone on the tampering transport, up to the point
\* where NewStream has returned and a failed peer has gone
NextHandshakeFault ==
    \E p \in Peers : NewStream(p) \/ Exit(p) \/ Tamper(p)

SpecHandshakeFault == Init /\ [][NextHandshakeFault]_vars

\* ------------------------------------------------ a transport that is cut
\* what arrives of the queue q when the transport breaks after n of its bytes
RECURSIVE Truncate(_, _)
Truncate(q, n) ==
    IF q = <<>> \/ n = 0 THEN <<>>
    ELSE IF Head(q).len <= n
         THEN <<Head(q)>> \o Truncate(Tail(q), n - Head(q).len)
         ELSE <<[Head(q) EXCEPT !.len = n]>>

\* the byte counts tried for a cut of q: each boundary between segments,
\* one byte after it and one byte before it (a read that comes up short
\* fails the same way whatever the count)
CutPoints(q) ==
    LET bounds == {SegBytes(SubSeq(q, 1, i)) : i \in 0..Len(q)}
    IN  {n \in 0..SegBytes(q) : \E b \in bounds : n \in {b - 1, b, b + 1}}

\* the connection breaks: of the bytes in flight in each direction a prefix
\* still arrives, and both ends are closed from then on
Cut ==
    /\ \A p \in Peers : proc[p] = "running" /\ ~closed[p]
    /\ \E nA \in CutPoints(chan["A"]), nB \in CutPoints(chan["B"]) :
          chan' = [p \in Peers |->
                     Truncate(chan[p], IF p = "A" THEN nA ELSE nB)]
    /\ closed' = [p \in Peers |-> TRUE]
    /\ UNCHANGED <<bc, drv, cb, pc, err, ret, loc, proc, rpc, rsiz, sent, rcvd,
                   trace, faults>>

NextCut == (\E p \in Peers : NewStream(p) \/ Exit(p)) \/ Cut

SpecCut == Init /\ [][NextCut]_vars

\* ================================================================ claims
\* the plaintexts of the Send calls of p that returned nil, in call order
Delivered(p) ==
    LET ok == SelectSeq(sent[p], LAMBDA c : c.err = Nil)
    IN  [i \in 1..Len(ok) |-> ok[i].msg]

\* C1: on a fault-free transport the i-th Recv of a peer returns, without
\* error, the plaintext of the i-th successful Send of the other peer, for
\* every i up to the number of those Sends.
C1_InOrderDelivery ==
    \A p \in Peers :
        \A i \in 1..Len(rcvd[Other(p)]) :
            i <= Len(Delivered(p)) =>
                /\ rcvd[Other(p)][i].err = Nil
                /\ rcvd[Other(p)][i].msg = Delivered(p)[i]

C1_Witness ==
    /\ Len(rcvd["B"]) = 2
    /\ Delivered("A") = <<(<<8, 9>>), (<<7>>)>>
    /\ rcvd["B"][1].msg = <<8, 9>> /\ rcvd["B"][1].err = Nil
    /\ rcvd["B"][2].msg = <<7>> /\ rcvd["B"][2].err = Nil

\* what the two trust callbacks answer for the key of the other peer
Accepts(p) == cb[p][identity[Other(p)].Public] = "accept"
BothAccept == Accepts("A") /\ Accepts("B")
Succeeded(p) == pc[p] = "Returned" /\ err[p] = Nil

\* C2: on a fault-free transport, once both NewStream calls have returned,
\* both returned nil exactly if both trust callbacks accept; and a call that
\* returned nil left the long-term public key of the other peer in OtherPK.
C2_HandshakeIffTrust ==
    /\ (\A p \in Peers : pc[p] = "Returned") =>
          ((\A p \in Peers : err[p] = Nil) <=> BothAccept)
    /\ \A p \in Peers :
          Succeeded(p) => ret[p].OtherPK = identity[Other(p)].Public

C2_Witness ==
    /\ BothAccept
    /\ \A p \in Peers : Succeeded(p) /\ ret[p].OtherPK = identity[Other(p)].Public


\* the positions of the callback events in the trace of p
CbAt(p) == {i \in 1..Len(trace[p]) : trace[p][i].op = "cb"}

\* C3: NewStream calls the trust callback at most once; the call comes
\* right after the read of the 32-byte public key and before any write other
\* than those of the protocol tag and the own public key; when the callback
\* answers false or an error, NewStream returns ErrTrust and the call is the
\* last event of the handshake, so nothing is written after it.
C3_TrustOnceBeforeEph ==
    \A p \in Peers :
        /\ Cardinality(CbAt(p)) <= 1
        /\ \A i \in CbAt(p) :
              /\ i > 1
              /\ trace[p][i - 1].op = "r" /\ trace[p][i - 1].n = 32
              /\ \A j \in 1..(i - 1) :
                    trace[p][j].op = "w" => trace[p][j].n \in {8, 32}
              /\ cb[p][ret[p].OtherPK] # "accept" =>
                    /\ pc[p] = "Returned" /\ err[p] = ErrTrust
                    /\ i = Len(trace[p])

C3_Witness ==
    /\ CbAt("A") = {5} /\ Len(trace["A"]) = 5
    /\ cb["A"][ret["A"].OtherPK] = "error"
    /\ err["A"] = ErrTrust
    /\ CbAt("B") = {5} /\ Len(trace["B"]) > 5

\* C4: a peer that read 8 bytes other than the protocol tag has returned
\* ErrProto, and its only write is that of its own 8-byte tag.
C4_WrongTagProto ==
    \A p \in Peers :
        (Len(trace[p]) >= 2 /\ trace[p][2].v # "zeolite1") =>
            /\ pc[p] = "Returned" /\ err[p] = ErrProto
            /\ trace[p] = <<Ev("w", 8, ""), Ev("r", 8, trace[p][2].v)>>

C4_Witness ==
    /\ Len(trace["B"]) = 2 /\ trace["B"][2].v = "xeolite1"
    /\ err["B"] = ErrProto
    /\ Len(trace["A"]) > 2

\* the number of bytes the read at a position of NewStream waits for
ReadLen(at) ==
    CASE at = "ReadProto" -> 8
      [] at = "ReadPK" -> 32
      [] at = "ReadEph" -> 96
      [] at = "ReadSym" -> 72
      [] at = "ReadHdr" -> 24
\* p sits in a read of NewStream that neither has its bytes nor has failed
Blocked(p) ==
    /\ proc[p] = "running"
    /\ pc[p] \in {"ReadProto", "ReadPK", "ReadEph", "ReadSym", "ReadHdr"}
    /\ ~ReadReady(p, ReadLen(pc[p]))
    /\ ~ReadFails(p, ReadLen(pc[p]))

\* C5: when both trust callbacks accept, on a transport whose writes do not
\* wait for the reader, the two peers are never both blocked in a read of
\* the handshake, and both NewStream calls eventually return nil.
C5_NoDeadlock ==
    /\ [](BothAccept => ~(Blocked("A") /\ Blocked("B")))
    /\ (BothAccept => <>(Succeeded("A") /\ Succeeded("B")))

C5_Witness ==
    /\ BothAccept
    /\ Blocked("A") /\ pc["A"] = "ReadSym"
    /\ pc["B"] = "WriteSym"

\* the reads and writes of the handshake of p, in order
HsIO(p) ==
    LET t == SelectSeq(trace[p], LAMBDA e : e.op # "cb")
    IN  [i \in 1..Len(t) |-> <<t[i].op, t[i].n>>]
\* the handshake of the wire format: five artifacts, each written then read
LockstepIO ==
    <<(<<"w", 8>>), (<<"r", 8>>), (<<"w", 32>>), (<<"r", 32>>),
      (<<"w", 96>>), (<<"r", 96>>), (<<"w", 72>>), (<<"r", 72>>),
      (<<"w", 24>>), (<<"r", 24>>)>>
RECURSIVE BytesWritten(_)
BytesWritten(io) ==
    IF io = <<>> THEN 0
    ELSE (IF Head(io)[1] = "w" THEN Head(io)[2] ELSE 0) + BytesWritten(Tail(io))

\* C6: at every point of a handshake the reads and writes done so far are
\* the first ones of: write 8, read 8, write 32, read 32, write 96, read 96,
\* write 72, read 72, write 24, read 24; a handshake that returned nil did
\* all ten, and wrote 232 bytes.
C6_LockstepOrder ==
    \A p \in Peers :
        /\ Len(HsIO(p)) <= Len(LockstepIO)
        /\ HsIO(p) = SubSeq(LockstepIO, 1, Len(HsIO(p)))
        /\ Succeeded(p) =>
              HsIO(p) = LockstepIO /\ BytesWritten(HsIO(p)) = 232

C6_Witness ==
    /\ Succeeded("A") /\ Succeeded("B")
    /\ HsIO("A") = LockstepIO /\ HsIO("B") = LockstepIO
    /\ BytesWritten(HsIO("A")) = 232


\* C7: a Send of the empty message does not panic and returns nil, having
\* written one frame of 21 bytes; the Recv that takes a frame of size 0
\* does not panic either and returns the empty plaintext.
C7_EmptyFrameLegal ==
    \A p \in Peers :
        /\ proc[p] # "panicked"
        /\ \A i \in 1..Len(sent[p]) :
              sent[p][i].msg = <<>> => sent[p][i].err = Nil
        /\ \A i \in 1..Len(rcvd[p]) :
              (rcvd[p][i].err = Nil /\ rcvd[p][i].n = 21) =>
                  rcvd[p][i].msg = <<>>

\* C8: once a Recv has returned ErrDecrypt, which it does for a frame with
\* an altered ciphertext byte, no later Recv of that peer returns nil.
C8_NoDecodeAfterCorruption ==
    \A p \in Peers :
        \A i, j \in 1..Len(rcvd[p]) :
            (i < j /\ rcvd[p][i].err = ErrDecrypt) => rcvd[p][j].err # Nil

\* C9: once a Send (a Recv) of a peer has returned an error, every later
\* Send (Recv) of that peer that returns at all returns that same error.
C9_ErrorsStick ==
    \A p \in Peers :
        /\ \A i, j \in 1..Len(rcvd[p]) :
              (i < j /\ rcvd[p][i].err # Nil /\ rcvd[p][j].err # Panic) =>
                  rcvd[p][j].err = rcvd[p][i].err
        /\ \A i, j \in 1..Len(sent[p]) :
              (i < j /\ sent[p][i].err # Nil /\ sent[p][j].err # Panic) =>
                  sent[p][j].err = sent[p][i].err

\* C10: a Recv that met the end of the transport before it had read a byte
\* returns ErrEOS, and one that met it after at least one byte returns
\* ErrRecv.
C10_EosAtFrameBoundary ==
    \A p \in Peers :
        \A i \in 1..Len(rcvd[p]) :
            rcvd[p][i].err \in {ErrRecv, ErrEOS} =>
                IF rcvd[p][i].n = 0 THEN rcvd[p][i].err = ErrEOS
                                    ELSE rcvd[p][i].err = ErrRecv

\* C11: a Send that returns returns nil, ErrEncrypt (push failed) or ErrSend
\* (the transport write failed), and nothing else.
C11_SendErrorKinds ==
    \A p \in Peers :
        \A i \in 1..Len(sent[p]) :
            sent[p][i].err \in {Nil, ErrEncrypt, ErrSend, Panic}

\* p's own end is closed although p still runs: the transport was cut
CutSeen(p) == closed[p] /\ proc[p] = "running"
\* the bytes NewStream of p has read off the connection
RECURSIVE BytesRead(_)
BytesRead(t) ==
    IF t = <<>> THEN 0
    ELSE (IF Head(t).op = "r" THEN Head(t).n ELSE 0) + BytesRead(Tail(t))
\* the bytes of the other peer's handshake that reach p
DeliveredTo(p) == BytesRead(trace[p]) + SegBytes(chan[Other(p)])

\* C12 as stated: after a cut that let through at most 231 handshake bytes
\* to some peer, every NewStream that has returned has returned an error
\* (ErrRecv or ErrSend when its trust callback accepts).
C12_CutFailsBoth ==
    (\E q \in Peers : CutSeen(q) /\ DeliveredTo(q) <= 231) =>
        \A p \in Peers :
            pc[p] = "Returned" =>
                /\ err[p] # Nil
                /\ cb[p][identity[Other(p)].Public] = "accept" =>
                      err[p] \in {ErrRecv, ErrSend}

\* C12 amended: after a cut, a peer that at most 231 bytes of the other
\* peer's handshake reach is never left blocked in a read, and when its
\* NewStream has returned it has returned an error, which is ErrRecv or
\* ErrSend when its trust callback accepts.
C12_CutFailsShortPeer ==
    \A p \in Peers :
        (CutSeen(p) /\ DeliveredTo(p) <= 231) =>
            /\ ~Blocked(p)
            /\ pc[p] = "Returned" =>
                  /\ err[p] # Nil
                  /\ cb[p][identity[Other(p)].Public] = "accept" =>
                        err[p] \in {ErrRecv, ErrSend}

C12_Witness ==
    /\ CutSeen("B") /\ DeliveredTo("B") = 135
    /\ pc["B"] = "Returned" /\ err["B"] = ErrRecv
    /\ CutSeen("A") /\ pc["A"] = "Returned" /\ err["A"] = ErrSend

\* C13: NewStream is all-or-nothing: with an error it returns a Stream that
\* holds no transport reference, no peer key and no initialized state, and
\* a Stream whose two states are both initialized comes with a nil error.
C13_AllOrNothing ==
    \A p \in Peers :
        pc[p] = "Returned" =>
            /\ err[p] # Nil => ret[p] = ZeroStream
            /\ (ret[p].SendState # ZeroState /\ ret[p].RecvState # ZeroState)
                  => err[p] = Nil

\* the reads by p of a signed ephemeral key that was altered in transit
AlteredEphAt(p) ==
    {i \in 1..Len(trace[p]) :
        trace[p][i] = Ev("r", SignBytes + EphPKBytes, "altered")}

\* C14: a peer that reads a signed ephemeral-key message altered in transit
\* returns ErrVerify from NewStream, and the read is the last thing its
\* handshake does: it writes neither its encrypted symmetric key nor its
\* stream header.
C14_AlteredEphVerify ==
    \A p \in Peers :
        \A i \in AlteredEphAt(p) :
            /\ pc[p] = "Returned" /\ err[p] = ErrVerify
            /\ i = Len(trace[p])
            /\ \A j \in 1..Len(trace[p]) :
                  ~(trace[p][j].op = "w"
                    /\ trace[p][j].n \in {SymMsgBytes, HeaderBytes})
            /\ ret[p].SendState = ZeroState /\ ret[p].RecvState = ZeroState

C14_Witness ==
    /\ AlteredEphAt("B") # {}
    /\ err["B"] = ErrVerify
    /\ pc["A"] = "ReadSym"

\* the trust callback of p rejects the other peer, whose callback accepts p
OnlyRejects(p) ==
    /\ cb[p][identity[Other(p)].Public] = "reject"
    /\ cb[Other(p)][identity[p].Public] = "accept"

\* C15 as stated: when A's callback rejects B and B's accepts A, a NewStream
\* of A that has returned returned ErrTrust and a NewStream of B that has
\* returned returned ErrRecv.
C15_RejectedPeerGetsRecv ==
    \A p \in Peers :
        OnlyRejects(p) =>
            /\ pc[p] = "Returned" => err[p] = ErrTrust
            /\ pc[Other(p)] = "Returned" => err[Other(p)] = ErrRecv

\* C15 amended: when A's callback rejects B and B's accepts A, B never
\* returns a Stream with a nil error, and eventually A's NewStream has
\* returned ErrTrust and B's has returned ErrRecv or ErrSend.
C15_RejectedPeerFails ==
    /\ [](\A p \in Peers :
            OnlyRejects(p) =>
                /\ ~(pc[Other(p)] = "Returned" /\ err[Other(p)] = Nil)
                /\ pc[p] = "Returned" => err[p] = ErrTrust)
    /\ \A p \in Peers :
          OnlyRejects(p) ~>
              (/\ pc[p] = "Returned" /\ err[p] = ErrTrust
               /\ pc[Other(p)] = "Returned"
               /\ err[Other(p)] \in {ErrRecv, ErrSend})

C15_Witness ==
    /\ OnlyRejects("A")
    /\ pc["A"] = "Returned" /\ err["A"] = ErrTrust /\ proc["A"] = "exited"
    /\ pc["B"] = "Returned" /\ err["B"] = ErrRecv
    /\ Len(trace["B"]) = 6

\* the key the driver was asked about is named by a -t option or a -T line
InTrustOptions ==
    \/ \E i \in 1..Len(drv.trustIDs) :
          drv.trustIDs[i] = Base64Enc(drv.otherPK)
    \/ \E f \in 1..Len(drv.trustFiles) :
          \E i \in 1..Len(drv.trustFiles[f]) :
             drv.trustFiles[f][i] = Base64Enc(drv.otherPK)

\* C16: the driver accepts a peer key exactly if -k was given or the key's
\* base64 form is in the trust list built from -t and -T; without -k and
\* with an empty trust list no key is ever accepted.
C16_TrustDecision ==
    /\ drv.phase = "decided" =>
          (drv.accept <=> (drv.noCheck \/ InTrustOptions))
    /\ (~drv.noCheck /\ drv.trustIDs = <<>> /\ Flatten(drv.trustFiles) = <<>>)
          => drv.phase # "decided"

\* C17: every successful Send advances the sending state held by the Stream
\* and every successful Recv its receiving state: the counter of each state
\* is one (its value after init) plus the number of successful calls, so no
\* two frames of one direction are handled under the same state.
C17_StatesAdvance ==
    \A p \in Peers :
        Succeeded(p) =>
            /\ ret[p].SendState.ctr =
                  1 + Len(SelectSeq(sent[p], LAMBDA s : s.err = Nil))
            /\ ret[p].RecvState.ctr =
                  1 + Len(SelectSeq(rcvd[p], LAMBDA r : r.err = Nil))
            /\ \A i, j \in 1..Len(chan[p]) :
                  (i < j /\ chan[p][i].kind = "body"
                         /\ chan[p][j].kind = "body") =>
                     chan[p][i].val.ctr # chan[p][j].val.ctr

\* key and header of a secretstream state
KeyHdr(st) == <<st.k, st.hdr>>

\* C18: after a handshake that succeeded on both sides, key and header of
\* each peer's sending state are key and header of the other peer's receiving
\* state; within a returned Stream the two states have distinct keys and
\* distinct headers.
C18_StatesPaired ==
    /\ (Succeeded("A") /\ Succeeded("B")) =>
          /\ KeyHdr(ret["A"].SendState) = KeyHdr(ret["B"].RecvState)
          /\ KeyHdr(ret["B"].SendState) = KeyHdr(ret["A"].RecvState)
    /\ \A p \in Peers :
          Succeeded(p) =>
              /\ ret[p].SendState.k # ret[p].RecvState.k
              /\ ret[p].SendState.hdr # ret[p].RecvState.hdr
              /\ ZeroKey \notin {ret[p].SendState.k, ret[p].RecvState.k}

C18_Witness ==
    /\ Succeeded("A") /\ Succeeded("B")
    /\ ret["A"].SendState.k = FreshSymK("A")
    /\ ret["A"].RecvState.k = FreshSymK("B")
    /\ ret["B"].RecvState.hdr = FreshHeader("A")

\* what Recv of p works on, and what Send of p works on
RecvSide(p) == <<ret[p].RecvState, rcvd[p], rpc[p], rsiz[p], chan[Other(p)]>>
SendSide(p) == <<ret[p].SendState, sent[p], chan[p]>>

\* C19: with the Send task and the Recv task of one Stream interleaved in
\* any way, a step of Send leaves everything Recv works on as it was and a
\* step of Recv leaves everything Send works on as it was, and the frame a
\* Send writes is determined by the message and the sending state alone; so
\* the frames written and the plaintexts returned do not depend on the
\* interleaving.
C19_SendRecvIndependent ==
    [][\A p \in Peers :
          /\ sent'[p] # sent[p] =>
                /\ RecvSide(p)' = RecvSide(p)
                /\ LET s == sent'[p][Len(sent'[p])]
                   IN  s.err = Nil =>
                          chan'[p] = chan[p] \o Frame(ret[p].SendState, s.msg)
          /\ (rcvd'[p] # rcvd[p] \/ rpc'[p] # rpc[p]) =>
                SendSide(p)' = SendSide(p)]_vars

C19_Witness ==
    /\ rpc["A"] = "body"
    /\ Len(sent["A"]) = 2 /\ sent["A"][2].err = Nil
    /\ Len(rcvd["A"]) = 1 /\ rcvd["A"][1].err = Nil

\* q is a run of whole frames: a 4-byte size holding n < 256 in its first
\* byte and zeros after it, then a body of n + 17 bytes
WholeFrames(q) ==
    /\ Len(q) % 2 = 0
    /\ \A i \in 1..Len(q) :
          IF i % 2 = 1
          THEN /\ q[i].kind = "size" /\ q[i].len = 4
               /\ q[i].val[1] < 256
               /\ q[i].val = <<q[i].val[1], 0, 0, 0>>
          ELSE /\ q[i].kind = "body"
               /\ q[i].len = q[i - 1].val[1] + 17
\* every Recv of p so far has succeeded
AllRecvOK(p) == \A i \in 1..Len(rcvd[p]) : rcvd[p][i].err = Nil

\* C20: a successful Send of n bytes appends one frame of 4 + n + 17 bytes,
\* n in its first four bytes least significant byte first, all in the
\* transport when Send returns; a successful Recv has taken 4 + n + 17
\* bytes off the transport; after successful calls only, the unread bytes
\* start at a frame boundary between two Recv calls, and inside a Recv they
\* start with the body the size just read announces.
C20_OneFramePerCall ==
    /\ [][\A p \in Peers :
            /\ (Len(sent'[p]) > Len(sent[p])
                  /\ sent'[p][Len(sent'[p])].err = Nil) =>
                  LET n == Len(sent'[p][Len(sent'[p])].msg)
                  IN  /\ Len(chan'[p]) = Len(chan[p]) + 2
                      /\ SubSeq(chan'[p], 1, Len(chan[p])) = chan[p]
                      /\ chan'[p][Len(chan[p]) + 1].len = 4
                      /\ chan'[p][Len(chan[p]) + 1].val = <<n, 0, 0, 0>>
                      /\ chan'[p][Len(chan[p]) + 2].len = n + 17
                      /\ chan'[p][Len(chan[p]) + 2].val.m =
                            sent'[p][Len(sent'[p])].msg
            /\ (Len(rcvd'[p]) > Len(rcvd[p])
                  /\ rcvd'[p][Len(rcvd'[p])].err = Nil) =>
                  /\ rcvd'[p][Len(rcvd'[p])].n =
                        4 + Len(rcvd'[p][Len(rcvd'[p])].msg) + 17
                  /\ rpc[p] = "body" /\ rpc'[p] = "size"
                  /\ chan[Other(p)] # <<>>
                  /\ chan'[Other(p)] = Tail(chan[Other(p)])
                  /\ Head(chan[Other(p)]).len =
                        Len(rcvd'[p][Len(rcvd'[p])].msg) + 17]_vars
    /\ [](\A p \in Peers :
            (pc[p] = "Returned" /\ err[p] = Nil /\ AllRecvOK(p)) =>
                IF rpc[p] = "size"
                THEN WholeFrames(chan[Other(p)])
                ELSE /\ chan[Other(p)] # <<>> =>
                          /\ Head(chan[Other(p)]).kind = "body"
                          /\ Head(chan[Other(p)]).len =
                                rsiz[p][1] + 17
                          /\ WholeFrames(Tail(chan[Other(p)]))
                     /\ rsiz[p] = <<rsiz[p][1], 0, 0, 0>>)

C20_Witness ==
    /\ Len(sent["A"]) = 2 /\ sent["A"][1].err = Nil /\ sent["A"][2].err = Nil
    /\ Len(rcvd["B"]) = 1 /\ rcvd["B"][1].err = Nil /\ rcvd["B"][1].n = 23
    /\ rpc["B"] = "size" /\ Len(chan["A"]) = 2
    /\ chan["A"][1].val = <<1, 0, 0, 0>> /\ chan["A"][2].len = 18

\* the second read of the last Recv of p was filled
BodyWasRead(p) ==
    /\ rcvd[p] # <<>>
    /\ rpc[p] = "size"
    /\ rcvd[p][Len(rcvd[p])].err \in {Nil, ErrDecrypt}

\* C21: whatever length prefix n Recv has read, a Recv whose second read was
\* filled has taken the 4 bytes of the prefix and exactly n + 17 further
\* bytes off the transport: n + 17 is not reduced modulo 2^32.  (Any n for
\* which a read of the model can be filled without wrapping is below 256.)
C21_ReadsSizePlus17 ==
    \A p \in Peers :
        BodyWasRead(p) =>
            /\ rsiz[p][2] = 0 /\ rsiz[p][3] = 0 /\ rsiz[p][4] = 0
            /\ rcvd[p][Len(rcvd[p])].n = 4 + (rsiz[p][1] + 17)

\* the Recv calls of p that returned a plaintext, in order
Received(p) == SelectSeq(rcvd[p], LAMBDA r : r.err = Nil)
\* the byte counts of the sink writes that completed, summed
RECURSIVE SumCompleted(_)
SumCompleted(calls) ==
    IF calls = <<>> THEN 0
    ELSE (IF Head(calls).err = Nil THEN Head(calls).n ELSE 0)
         + SumCompleted(Tail(calls))

\* C22: BlockCopy calls the sink's Write once for every frame Recv returned,
\* in that order and with that frame's plaintext (the last frame's call may
\* still be to come); written is the sum of the byte counts of the writes
\* that completed; BlockCopy goes on while no Recv and no Write has failed,
\* and when it has returned, it returned the error of the Recv or of the
\* Write that failed last, which is never nil.
C22_BlockCopyOneWritePerFrame ==
    \A p \in Peers :
        LET calls == bc[p].sink
            got == Received(p)
            failedRecv == rcvd[p] # <<>> /\ rcvd[p][Len(rcvd[p])].err # Nil
            failedWrite == calls # <<>> /\ calls[Len(calls)].err # Nil
        IN  /\ Len(calls) = Len(got) - (IF bc[p].at = "Write" THEN 1 ELSE 0)
            /\ \A i \in 1..Len(calls) :
                  /\ calls[i].block = got[i].msg
                  /\ i < Len(calls) => calls[i].err = Nil
            /\ \A i \in 1..(Len(rcvd[p]) - 1) : rcvd[p][i].err = Nil
            /\ bc[p].written = SumCompleted(calls)
            /\ bc[p].at \in {"BlockRead", "Write"} =>
                  ~failedRecv /\ ~failedWrite /\ bc[p].err = "none"
            /\ bc[p].at = "Returned" =>
                  /\ bc[p].err \notin {Nil, "none"}
                  /\ \/ failedRecv /\ ~failedWrite
                           /\ bc[p].err = rcvd[p][Len(rcvd[p])].err
                     \/ failedWrite /\ ~failedRecv
                           /\ bc[p].err = calls[Len(calls)].err

C22_Witness ==
    /\ bc["B"].at = "Returned" /\ bc["B"].err = SinkWriteErr
    /\ Len(bc["B"].sink) = 2 /\ bc["B"].sink[2].n = 1
    /\ bc["B"].written = 1
    /\ bc["A"].at = "Returned" /\ bc["A"].err = ErrRecv
    /\ Len(bc["A"].sink) = 1

====
